---- MODULE Spec2Model ----
(***************************************************************************)
(* Model of the edge request router of src/src/index.js (a Cloudflare      *)
(* Worker in front of a static Zola site).                                 *)
(*                                                                         *)
(* Representation.  A pathname or URL is a sequence of tokens: the         *)
(* characters "/", "." and ":" are tokens of their own and every other     *)
(* token is a maximal run of the remaining characters, except that a       *)
(* leading "http" is split off ("https" is <<"http", "s">>) so that        *)
(* startsWith('http') is a prefix test.  Concatenation is \o, startsWith   *)
(* and endsWith are prefix and suffix tests, includes('.') is membership   *)
(* of the token ".".  Header values are strings.  A body is a sequence of  *)
(* chunks, each chunk a sequence of strings; a JSON body is the sequence   *)
(* of its key/value pairs.  A promise that has settled is a record         *)
(* [kind |-> "fulfilled", value |-> r] or [kind |-> "rejected", ...].      *)
(***************************************************************************)
EXTENDS Naturals, Sequences, FiniteSets, TLC

VARIABLES
    pc,          \* position of the worker in the handling of the current request
    request,     \* the Request being handled: method, origin, pathname, body
    docs,        \* the documents the static origin holds (pathnames)
    pathname,    \* getOriginResponse's local pathname, after root and clean-URL rewriting
    originResp,  \* the Response getOriginResponse resolved to
    fetched,     \* the origin fetches made for this request, in order:
                 \* <<call site, pathname, status (0: network error)>>
    outcome,     \* state of the promise handleRequest returned: pending, fulfilled, rejected
    response,    \* the Response the promise was fulfilled with
    track,       \* state of the promise of trackPageView(request).catch(console.error)
    unhandled,   \* promises that were rejected with no handler attached
    inflight,    \* ANALYTICS.put calls of trackPageView still pending: [key, value]
    store,       \* the ANALYTICS key-value namespace: key -> value
    now,         \* Date.now()
    served,      \* how many requests have been received
    analyticsBound  \* typeof ANALYTICS !== 'undefined': the worker has the binding

vars == <<pc, request, docs, pathname, originResp, fetched, outcome, response,
          track, unhandled, inflight, store, now, served, analyticsBound>>

-----------------------------------------------------------------------------
(* Bounds *)

MaxRequests == 2
MaxTime == 1
MaxRandom == 2

-----------------------------------------------------------------------------
(* String operations on token sequences *)

startsWith(s, prefix) ==
    /\ Len(prefix) <= Len(s)
    /\ SubSeq(s, 1, Len(prefix)) = prefix

endsWith(s, suffix) ==
    /\ Len(suffix) <= Len(s)
    /\ SubSeq(s, Len(s) - Len(suffix) + 1, Len(s)) = suffix

includes(s, tok) == \E i \in 1..Len(s) : s[i] = tok

\* First occurrence of chunk c in body b, 0 when absent.
RECURSIVE IndexOf(_, _, _)
IndexOf(b, c, i) ==
    IF i > Len(b) THEN 0
    ELSE IF b[i] = c THEN i
    ELSE IndexOf(b, c, i + 1)

-----------------------------------------------------------------------------
(* Headers: a function from header name to value *)

NoHeaders == <<>>

HeaderSet(h, k, v) == (k :> v) @@ h

\* headers.get(k) || ''
HeaderGet(h, k) == IF k \in DOMAIN h THEN h[k] ELSE ""

\* { ...a, ...b }: the keys of b win.
Spread(a, b) == b @@ a

\* String.includes('text/html') on the content types that occur.
includesTextHtml(contentType) ==
    contentType \in {"text/html", "text/html; charset=utf-8"}

-----------------------------------------------------------------------------
(* CONFIG *)

CACHE_TTL_html == 3600
CACHE_TTL_assets == 31536000
CACHE_TTL_api == 300

SECURITY_HEADERS ==
    ("X-Frame-Options" :> "DENY")
    @@ ("X-Content-Type-Options" :> "nosniff")
    @@ ("X-XSS-Protection" :> "1; mode=block")
    @@ ("Referrer-Policy" :> "strict-origin-when-cross-origin")
    @@ ("Permissions-Policy" :> "camera=(), microphone=(), geolocation=(), payment=()")
    @@ ("Strict-Transport-Security" :> "max-age=31536000; includeSubDomains; preload")

P_root == <<"/">>
P_index_html == <<"/", "index", ".", "html">>
P_resume == <<"/", "resume">>
P_contact == <<"/", "contact">>
P_projects == <<"/", "projects">>
P_blog == <<"/", "blog">>
P_cv == <<"/", "cv">>
P_portfolio == <<"/", "portfolio">>
P_linkedin == <<"/", "linkedin">>
P_github == <<"/", "github">>
P_health == <<"/", "health">>
P_404_html == <<"/", "404", ".", "html">>
DotHtml == <<".", "html">>

U_linkedin ==
    <<"http", "s", ":", "/", "/", "linkedin", ".", "com", "/", "in", "/", "jonathan-vercoutre">>
U_github == <<"http", "s", ":", "/", "/", "github", ".", "com", "/", "jvercoutre">>

CLEAN_URLS ==
    (P_resume :> (P_resume \o DotHtml))
    @@ (P_contact :> (P_contact \o DotHtml))
    @@ (P_projects :> (P_projects \o DotHtml))
    @@ (P_blog :> (P_blog \o DotHtml))

REDIRECTS ==
    (P_cv :> P_resume)
    @@ (P_portfolio :> P_projects)
    @@ (P_linkedin :> U_linkedin)
    @@ (P_github :> U_github)

API_PREFIX == <<"/", "api", "/">>
STATIC_PREFIX == <<"/", "static", "/">>
P_api_contact == <<"/", "api", "/", "contact">>
P_api_analytics == <<"/", "api", "/", "analytics">>
P_api_resume == <<"/", "api", "/", "resume">>

staticExtensions ==
    { <<".", e>> : e \in {"css", "js", "png", "jpg", "jpeg", "gif", "svg", "webp",
                          "woff", "woff2", "ttf", "ico"} }

\* Faulty variant: the /static/ prefix test is left out.
isStaticAsset_NoPrefix(p) == \E ext \in staticExtensions : endsWith(p, ext)

isStaticAsset(p) ==
    \/ \E ext \in staticExtensions : endsWith(p, ext)
    \/ startsWith(p, STATIC_PREFIX)

-----------------------------------------------------------------------------
(* Responses and promises *)

Response(status, headers, body) ==
    [status |-> status, headers |-> headers, body |-> body]

NoResponse == Response(0, NoHeaders, <<>>)

ok(r) == r.status >= 200 /\ r.status <= 299

Fulfilled(r) == [kind |-> "fulfilled", value |-> r]
Rejected(why) == [kind |-> "rejected", reason |-> why]

\* JSON.stringify of an object, as its key/value pairs.
Json1(k, v) == << <<k, v>> >>

-----------------------------------------------------------------------------
(* Requests *)

O_site == <<"http", "s", ":", "/", "/", "jonathan", ".", "vercout", ".", "re">>
O_dev == <<"http", ":", "/", "/", "localhost">>
Origins == {O_site, O_dev}

Methods == {"GET", "POST", "OPTIONS"}

P_about == <<"/", "about">>
P_docs_dir == <<"/", "docs", "/">>
P_style_css == <<"/", "style", ".", "css">>
P_static_page == <<"/", "static", "/", "page">>
P_dotted_dir == <<"/", "v1", ".", "2", "/", "about">>
P_404 == <<"/", "404">>
P_api_unknown == <<"/", "api", "/", "unknown">>
P_api_app_js == <<"/", "api", "/", "app", ".", "js">>

PagePaths ==
    {P_root, P_resume, P_about, P_docs_dir, P_style_css, P_static_page,
     P_dotted_dir, P_404, P_404_html}

ApiPaths == {P_api_contact, P_api_analytics, P_api_resume, P_api_unknown, P_api_app_js}

Paths == {P_health} \cup DOMAIN REDIRECTS \cup ApiPaths \cup PagePaths

NoBody == [kind |-> "none"]
NotJson == [kind |-> "malformed"]
JsonNull == [kind |-> "null"]
JsonObject(name, email, message) ==
    [kind |-> "object", name |-> name, email |-> email, message |-> message]

\* A missing field and an empty one are both falsy; "" stands for either.
PostBodies ==
    {NoBody, NotJson, JsonNull,
     JsonObject("A", "a@b.com", "hi"), JsonObject("A", "a@b.com", "")}

Requests ==
    { [method |-> m, origin |-> o, pathname |-> p, body |-> b] :
        m \in Methods, o \in Origins, p \in Paths, b \in PostBodies }

\* Only a POST has a body.  The page pipeline hands the request on to fetch and
\* reads nothing of it but the pathname: bodies vary on the API paths, and the
\* page paths are asked for on one origin, by GET and by POST.
ValidRequest(r) ==
    /\ r.body # NoBody => (r.method = "POST" /\ startsWith(r.pathname, API_PREFIX))
    /\ r.pathname \in PagePaths => (r.origin = O_site /\ r.method \in {"GET", "POST"})

NoRequest == [method |-> "GET", origin |-> O_site, pathname |-> <<>>, body |-> NoBody]

\* request.json(): rejects on a body that is not JSON (an empty body included).
json(body) ==
    IF body.kind \in {"none", "malformed"} THEN Rejected("SyntaxError")
    ELSE Fulfilled(body)

-----------------------------------------------------------------------------
(* Promise plumbing of async functions *)

statusOf(p) == IF p.kind = "rejected" THEN 0 ELSE p.value.status

\* `return p` in an async function, with or without a try around it: the
\* function's promise adopts p, and a rejection of p reaches no catch block of
\* the function.
ReturnPromise(p) == p

\* `await p` inside try { } catch { return r }.
AwaitInTry(p, r) == IF p.kind = "rejected" THEN Fulfilled(r) ELSE p

\* Faulty variant: no catch is attached to the promise.
CatchLog_Missing(p) == p

\* p.catch(console.error): the rejection is handled and logged.
CatchLog(p) == IF p.kind = "rejected" THEN Fulfilled(NoResponse) ELSE p

-----------------------------------------------------------------------------
(* API handlers *)

JsonType == ("Content-Type" :> "application/json")

corsHeadersOf(req) ==
    ("Access-Control-Allow-Origin" :> req.origin)
    @@ ("Access-Control-Allow-Methods" :> "GET, POST, OPTIONS")
    @@ ("Access-Control-Allow-Headers" :> "Content-Type")
    @@ ("Access-Control-Max-Age" :> "86400")

handleContactForm(req, corsHeaders) ==
    IF req.method # "POST"
    THEN Fulfilled(Response(405, Spread(corsHeaders, JsonType),
                            Json1("error", "Method not allowed")))
    ELSE LET formData == json(req.body) IN
         IF formData.kind = "rejected" THEN Rejected("SyntaxError")
         ELSE IF formData.value.kind = "null" THEN Rejected("TypeError")
         ELSE IF formData.value.name = "" \/ formData.value.email = ""
                 \/ formData.value.message = ""
         THEN Fulfilled(Response(400, Spread(corsHeaders, JsonType),
                                 Json1("error", "Missing required fields")))
         ELSE Fulfilled(Response(200, Spread(corsHeaders, JsonType),
                                 << <<"success", "true">>,
                                    <<"message", "Thank you for your message!">> >>))

\* The response of handleAnalytics; its write is AnalyticsPut below.
handleAnalytics(req, corsHeaders) ==
    IF req.method # "POST"
    THEN Fulfilled(Response(204, NoHeaders, <<>>))
    ELSE Fulfilled(Response(204, corsHeaders, <<>>))

handleResumeApi(req, corsHeaders) ==
    Fulfilled(Response(200,
        Spread(corsHeaders,
               JsonType @@ ("Cache-Control" :> ("public, max-age=" \o ToString(CACHE_TTL_api)))),
        << <<"name", "Jonathan Vercoutre">>,
           <<"title", "Senior Site Reliability Engineer">>,
           <<"location", "Your Location">>,
           <<"email", "your.email@domain.com">>,
           <<"website", "https://jonathan.vercout.re">>,
           <<"summary", "Experienced SRE with expertise in...">> >>))

handleApi(req) ==
    LET corsHeaders == corsHeadersOf(req) IN
    IF req.method = "OPTIONS" THEN Fulfilled(Response(200, corsHeaders, <<>>))
    ELSE CASE req.pathname = P_api_contact ->
                ReturnPromise(handleContactForm(req, corsHeaders))
           [] req.pathname = P_api_analytics ->
                ReturnPromise(handleAnalytics(req, corsHeaders))
           [] req.pathname = P_api_resume ->
                ReturnPromise(handleResumeApi(req, corsHeaders))
           [] OTHER ->
                Fulfilled(Response(404, Spread(corsHeaders, JsonType),
                                   Json1("error", "Endpoint not found")))

\* handleAnalytics reaches ANALYTICS.put: a POST whose body parses.
AnalyticsWrites(req) ==
    /\ req.method = "POST"
    /\ req.pathname = P_api_analytics
    /\ json(req.body).kind = "fulfilled"

analyticsKey(t, rnd) == <<"pageview", t, rnd>>

\* The stored records are opaque to the router (it never reads them back): a
\* value is kept as the kind of record and its expiry.
analyticsValue(req) == [record |-> "analytics", expirationTtl |-> 86400 * 30]

pageViewKey(t) == <<"pageview", t>>

pageViewValue(req, t) == [record |-> "pageview", expirationTtl |-> 86400 * 7]

\* ANALYTICS.put(key, value): last write wins.
put(kv, key, value) == (key :> value) @@ kv

-----------------------------------------------------------------------------
(* The static origin *)

HeadOpen == <<"<head>">>
HeadClose == <<"</head>">>

originContentType(p) ==
    IF endsWith(p, DotHtml) THEN ("Content-Type" :> "text/html; charset=utf-8")
    ELSE IF endsWith(p, <<".", "css">>) THEN ("Content-Type" :> "text/css")
    ELSE NoHeaders

\* The document at p: its body names p, an HTML document has a head.
originDocument(p) ==
    Response(200,
             originContentType(p) @@ ("Cache-Control" :> "max-age=60")
                                  @@ ("X-Frame-Options" :> "SAMEORIGIN"),
             IF endsWith(p, DotHtml) THEN <<HeadOpen, p, HeadClose, <<"<body>">> >>
             ELSE <<p>>)

origin404 == Response(404, ("Content-Type" :> "text/plain"), << <<"origin: not found">> >>)

origin503 ==
    Response(503, ("Content-Type" :> "text/html"), << <<"origin: unavailable">> >>)

\* What fetch(url) can settle to: the document or the origin's 404, an error
\* status of the origin, or a network error.
fetch(p) ==
    { Fulfilled(IF p \in docs THEN originDocument(p) ELSE origin404),
      Fulfilled(origin503),
      Rejected("NetworkError") }

-----------------------------------------------------------------------------
(* getOriginResponse *)

\* Root and clean-URL rewriting of the requested pathname.
rewritePathname(p) ==
    LET p1 == IF p = P_root THEN P_index_html ELSE p
    IN  IF p1 \in DOMAIN CLEAN_URLS THEN CLEAN_URLS[p1] ELSE p1

triesHtml(p) == ~includes(p, ".") /\ ~endsWith(p, <<"/">>)

\* Faulty variant: the speculative fetch asks for the path itself.
htmlPath_NoSuffix(p) == p

htmlPath(p) == p \o DotHtml

notFoundPathname == P_404_html

\* Faulty variant: the not-found document is passed on with the status it was fetched with.
customNotFound_KeepStatus(notFoundResponse) == notFoundResponse

customNotFound(notFoundResponse) ==
    Response(404, notFoundResponse.headers, notFoundResponse.body)

defaultNotFound ==
    Response(404, ("Content-Type" :> "text/plain"), << <<"Page Not Found">> >>)

\* The documents of the origin that handling a request for p can ask for.
RelevantDocs(p) ==
    LET q == rewritePathname(p)
    IN  {q, htmlPath(q), P_404_html}

-----------------------------------------------------------------------------
(* applyTransformations *)

Snippet ==
    << <<"<!-- Injected by Cloudflare Worker -->">>,
       <<"<meta name=\"generator\" content=\"Zola + Cloudflare Workers\">">>,
       <<"<script>navigator.sendBeacon('/api/analytics', ...)</script>">>,
       HeadClose >>

\* String.replace('</head>', snippet): the first occurrence only.
replaceHeadClose(html) ==
    LET i == IndexOf(html, HeadClose, 1)
    IN  IF i = 0 THEN html
        ELSE SubSeq(html, 1, i - 1) \o Snippet \o SubSeq(html, i + 1, Len(html))

\* readOk: whether response.text() could read the body.
transformHtml(resp, readOk) ==
    IF ~readOk THEN Rejected("TypeError")
    ELSE Fulfilled(Response(resp.status, resp.headers, replaceHeadClose(resp.body)))

cacheControlFor(contentType, p, headers) ==
    IF includesTextHtml(contentType)
    THEN HeaderSet(headers, "Cache-Control", "public, max-age=" \o ToString(CACHE_TTL_html))
    ELSE IF isStaticAsset(p)
    THEN HeaderSet(headers, "Cache-Control",
                   "public, max-age=" \o ToString(CACHE_TTL_assets) \o ", immutable")
    ELSE headers

applyTransformations(req, resp, readOk) ==
    LET contentType == HeaderGet(resp.headers, "Content-Type")
        h1 == Spread(resp.headers, SECURITY_HEADERS)
        h2 == cacheControlFor(contentType, req.pathname, h1)
        h3 == HeaderSet(HeaderSet(h2, "X-Powered-By", "Cloudflare Workers"),
                        "X-Resume-Version", "2024.1")
        newResponse == Response(resp.status, h3, resp.body)
    IN  IF includesTextHtml(contentType) /\ ok(resp)
        THEN ReturnPromise(transformHtml(newResponse, readOk))
        ELSE Fulfilled(newResponse)

-----------------------------------------------------------------------------
(* handleRequest *)

healthResponse(t) ==
    Response(200, JsonType,
             << <<"status", "ok">>, <<"timestamp", ToString(t)>>, <<"version", "1.0.0">> >>)

\* Faulty variant: every target is taken for a path of this site.
isExternal_Never(redirectUrl) == FALSE

isExternal(redirectUrl) == startsWith(redirectUrl, <<"http">>)

\* Response.redirect(url, 301)
redirectResponse(req) ==
    LET redirectUrl == REDIRECTS[req.pathname]
    IN  Response(301,
                 ("Location" :> (IF isExternal(redirectUrl) THEN redirectUrl
                                 ELSE req.origin \o redirectUrl)),
                 <<>>)

internalServerError ==
    Response(500, SECURITY_HEADERS, << <<"Internal Server Error">> >>)

isHealth(req) == req.pathname = P_health
isRedirect(req) == req.pathname \in DOMAIN REDIRECTS
isApi(req) == startsWith(req.pathname, API_PREFIX)


-----------------------------------------------------------------------------
(* State machine *)

perRequest == <<request, docs, pathname, originResp, fetched, outcome, response, track>>
analytics == <<inflight, store>>

Init ==
    /\ pc = "idle"
    /\ request = NoRequest
    /\ docs = {}
    /\ pathname = <<>>
    /\ originResp = NoResponse
    /\ fetched = <<>>
    /\ outcome = "none"
    /\ response = NoResponse
    /\ track = "none"
    /\ unhandled = {}
    /\ inflight = {}
    /\ store = <<>>
    /\ now = 0
    /\ served = 0
    /\ analyticsBound \in BOOLEAN

\* handleRequest's promise settles as p did.
Settle(p) ==
    /\ outcome' = p.kind
    /\ response' = IF p.kind = "fulfilled" THEN p.value ELSE NoResponse
    /\ pc' = "done"

\* The fetch event: the runtime calls handleRequest(event.request).
Receive ==
    /\ pc = "idle"
    /\ inflight = {}
    /\ served < MaxRequests
    /\ \E r \in Requests :
          /\ ValidRequest(r)
          /\ request' = r
          /\ docs' \in (IF isHealth(r) \/ isRedirect(r) \/ isApi(r) THEN {{}}
                        ELSE SUBSET RelevantDocs(r.pathname))
    /\ pc' = "dispatch"
    /\ served' = served + 1
    /\ pathname' = <<>>
    /\ originResp' = NoResponse
    /\ fetched' = <<>>
    /\ outcome' = "pending"
    /\ response' = NoResponse
    /\ track' = "none"
    /\ UNCHANGED <<unhandled, analytics, now, analyticsBound>>

HealthCheck ==
    /\ pc = "dispatch"
    /\ isHealth(request)
    /\ Settle(Fulfilled(healthResponse(now)))
    /\ UNCHANGED <<request, docs, pathname, originResp, fetched, track, unhandled,
                   analytics, now, served, analyticsBound>>

Redirect ==
    /\ pc = "dispatch"
    /\ ~isHealth(request)
    /\ isRedirect(request)
    /\ Settle(Fulfilled(redirectResponse(request)))
    /\ UNCHANGED <<request, docs, pathname, originResp, fetched, track, unhandled,
                   analytics, now, served, analyticsBound>>

\* return handleApi(request), with the awaited ANALYTICS.put of handleAnalytics.
HandleApi ==
    /\ pc = "dispatch"
    /\ ~isHealth(request)
    /\ ~isRedirect(request)
    /\ isApi(request)
    /\ Settle(ReturnPromise(handleApi(request)))
    /\ IF request.method # "OPTIONS" /\ AnalyticsWrites(request) /\ analyticsBound
       THEN \E putOk \in BOOLEAN, rnd \in 1..MaxRandom :
               store' = IF putOk
                        THEN put(store, analyticsKey(now, rnd), analyticsValue(request))
                        ELSE store
       ELSE UNCHANGED store
    /\ UNCHANGED <<request, docs, pathname, originResp, fetched, track, unhandled,
                   inflight, now, served, analyticsBound>>

\* trackPageView(request).catch(console.error), then the start of getOriginResponse.
PageRequest ==
    /\ pc = "dispatch"
    /\ ~isHealth(request)
    /\ ~isRedirect(request)
    /\ ~isApi(request)
    /\ IF analyticsBound
       THEN /\ inflight' = inflight \cup
                  {[req |-> served, key |-> pageViewKey(now),
                    value |-> pageViewValue(request, now)]}
            /\ track' = "pending"
       ELSE /\ inflight' = inflight
            /\ track' = "skipped"
    /\ pathname' = rewritePathname(request.pathname)
    /\ pc' = IF triesHtml(pathname') THEN "htmlFetch" ELSE "finalFetch"
    /\ UNCHANGED <<request, docs, originResp, fetched, outcome, response, unhandled,
                   store, now, served, analyticsBound>>

HtmlFetch ==
    /\ pc = "htmlFetch"
    /\ \E htmlResponse \in fetch(htmlPath(pathname)) :
          /\ IF htmlResponse.kind = "fulfilled" /\ ok(htmlResponse.value)
             THEN /\ originResp' = htmlResponse.value
                  /\ pc' = "transform"
             ELSE /\ originResp' = originResp
                  /\ pc' = "finalFetch"
          /\ fetched' = Append(fetched, <<"html", htmlPath(pathname), statusOf(htmlResponse)>>)
    /\ UNCHANGED <<request, docs, pathname, outcome, response, track, unhandled,
                   analytics, now, served, analyticsBound>>

FinalFetch ==
    /\ pc = "finalFetch"
    /\ \E r \in fetch(pathname) :
          /\ IF r.kind = "rejected"
             THEN /\ Settle(AwaitInTry(r, internalServerError))
                  /\ originResp' = originResp
             ELSE /\ originResp' = r.value
                  /\ pc' = IF r.value.status = 404 THEN "notFoundFetch" ELSE "transform"
                  /\ UNCHANGED <<outcome, response>>
          /\ fetched' = Append(fetched, <<"final", pathname, statusOf(r)>>)
    /\ UNCHANGED <<request, docs, pathname, track, unhandled, analytics, now, served,
                   analyticsBound>>

NotFoundFetch ==
    /\ pc = "notFoundFetch"
    /\ \E notFoundResponse \in fetch(notFoundPathname) :
          /\ originResp' =
                IF notFoundResponse.kind = "fulfilled" /\ ok(notFoundResponse.value)
                THEN customNotFound(notFoundResponse.value)
                ELSE defaultNotFound
          /\ fetched' = Append(fetched, <<"notFound", notFoundPathname, statusOf(notFoundResponse)>>)
    /\ pc' = "transform"
    /\ UNCHANGED <<request, docs, pathname, outcome, response, track, unhandled,
                   analytics, now, served, analyticsBound>>

\* response = await applyTransformations(request, response); return response
Transform ==
    /\ pc = "transform"
    /\ \E readOk \in BOOLEAN :
          Settle(AwaitInTry(applyTransformations(request, originResp, readOk),
                            internalServerError))
    /\ UNCHANGED <<request, docs, pathname, originResp, fetched, track, unhandled,
                   analytics, now, served, analyticsBound>>

\* A pending ANALYTICS.put of trackPageView settles.
TrackSettle ==
    /\ \E w \in inflight, putOk \in BOOLEAN :
          /\ inflight' = inflight \ {w}
          /\ IF putOk
             THEN /\ store' = put(store, w.key, w.value)
                  /\ unhandled' = unhandled
             ELSE /\ store' = store
                  /\ unhandled' = IF CatchLog(Rejected("KVError")).kind = "rejected"
                                  THEN unhandled \cup {"trackPageView"}
                                  ELSE unhandled
          /\ track' = IF w.req # served \/ pc = "idle" THEN track
                      ELSE IF putOk THEN "stored" ELSE "failed"
    /\ UNCHANGED <<pc, request, docs, pathname, originResp, fetched, outcome, response,
                   now, served, analyticsBound>>

\* The handler has returned and the runtime is done with the request.
Finish ==
    /\ pc = "done"
    /\ pc' = "idle"
    /\ request' = NoRequest
    /\ docs' = {}
    /\ pathname' = <<>>
    /\ originResp' = NoResponse
    /\ fetched' = <<>>
    /\ outcome' = "none"
    /\ response' = NoResponse
    /\ track' = "none"
    /\ UNCHANGED <<unhandled, analytics, now, served, analyticsBound>>

\* A millisecond passes.  Date.now() is read only as a request is dispatched, so
\* the clock is advanced between requests.
Tick ==
    /\ pc = "idle"
    /\ now < MaxTime
    /\ now' = now + 1
    /\ UNCHANGED <<pc, perRequest, unhandled, analytics, served, analyticsBound>>

Next ==
    \/ Receive
    \/ HealthCheck
    \/ Redirect
    \/ HandleApi
    \/ PageRequest
    \/ HtmlFetch
    \/ FinalFetch
    \/ NotFoundFetch
    \/ Transform
    \/ TrackSettle
    \/ Finish
    \/ Tick

Spec == Init /\ [][Next]_vars

-----------------------------------------------------------------------------
(* Properties *)

isPage(req) == ~isHealth(req) /\ ~isRedirect(req) /\ ~isApi(req)

carries(resp, headers) ==
    \A h \in DOMAIN headers : h \in DOMAIN resp.headers /\ resp.headers[h] = headers[h]

\* C1: handleRequest settles every request with a Response and never rejects;
\* a request whose handling failed gets status 500 with the six security headers.
C1_NeverRejects ==
    pc = "done" =>
        /\ outcome = "fulfilled"
        /\ response.status = 500 =>
              /\ carries(response, SECURITY_HEADERS)
              /\ Cardinality(DOMAIN SECURITY_HEADERS) = 6

\* C2: a path of the redirect table is answered 301 with Location the external
\* target verbatim or the internal target behind the request's own origin, with
\* no origin fetch and no page-view write.
C2_RedirectsFirst ==
    (pc = "done" /\ request.pathname \in {P_cv, P_portfolio, P_linkedin, P_github}) =>
        /\ outcome = "fulfilled"
        /\ response.status = 301
        /\ "Location" \in DOMAIN response.headers
        /\ response.headers["Location"] =
              CASE request.pathname = P_cv -> request.origin \o <<"/", "resume">>
                [] request.pathname = P_portfolio -> request.origin \o <<"/", "projects">>
                [] request.pathname = P_linkedin -> U_linkedin
                [] request.pathname = P_github -> U_github
        /\ fetched = <<>>
        /\ track = "none"
        /\ \A w \in inflight : w.req # served

C2_Witness ==
    /\ pc = "done"
    /\ request.pathname = P_cv
    /\ request.origin = O_dev
    /\ response.status = 301
    /\ response.headers["Location"] = <<"http", ":", "/", "/", "localhost", "/", "resume">>

staticAssetPath(p) ==
    \/ \E e \in {"css", "js", "png", "jpg", "jpeg", "gif", "svg", "webp",
                  "woff", "woff2", "ttf", "ico"} : endsWith(p, <<".", e>>)
    \/ startsWith(p, <<"/", "static", "/">>)

Immutable == "public, max-age=31536000, immutable"

\* C3 as claimed: every response to a static-asset path has the immutable
\* one-year Cache-Control, whatever the origin resolution yields.
C3_StaticAlwaysImmutable ==
    (pc = "done" /\ outcome = "fulfilled" /\ staticAssetPath(request.pathname)) =>
        HeaderGet(response.headers, "Cache-Control") = Immutable

\* C3 as amended: a static-asset path outside /api/ for which origin resolution
\* yields a response whose Content-Type does not include text/html is answered
\* with the immutable one-year Cache-Control.
C3_StaticImmutableUnlessHtml ==
    (/\ pc = "done"
     /\ staticAssetPath(request.pathname)
     /\ isPage(request)
     /\ originResp # NoResponse
     /\ ~includesTextHtml(HeaderGet(originResp.headers, "Content-Type"))) =>
        /\ outcome = "fulfilled"
        /\ HeaderGet(response.headers, "Cache-Control") = Immutable

C3_Witness ==
    /\ pc = "done"
    /\ request.pathname = P_static_page
    /\ originResp.status = 200
    /\ HeaderGet(originResp.headers, "Content-Type") = ""
    /\ HeaderGet(originResp.headers, "Cache-Control") = "max-age=60"
    /\ HeaderGet(response.headers, "Cache-Control") = Immutable

\* C4: every response for a path under /api/ carries the four CORS headers
\* computed from the request's origin.
C4_ApiResponsesCarryCors ==
    (pc = "done" /\ outcome = "fulfilled" /\ startsWith(request.pathname, <<"/", "api", "/">>)) =>
        /\ "Access-Control-Allow-Origin" \in DOMAIN response.headers
        /\ response.headers["Access-Control-Allow-Origin"] = request.origin
        /\ HeaderGet(response.headers, "Access-Control-Allow-Methods") = "GET, POST, OPTIONS"
        /\ HeaderGet(response.headers, "Access-Control-Allow-Headers") = "Content-Type"
        /\ HeaderGet(response.headers, "Access-Control-Max-Age") = "86400"

\* C5: a POST to /api/contact whose body is not JSON is answered 400 with
\* {error: "Missing required fields"}.
C5_MalformedContactIs400 ==
    (/\ pc = "done"
     /\ request.pathname = P_api_contact
     /\ request.method = "POST"
     /\ request.body = NotJson) =>
        /\ outcome = "fulfilled"
        /\ response.status = 400
        /\ response.body = << <<"error", "Missing required fields">> >>

\* Tokens of the last path segment (after the last "/").
RECURSIVE LastSegment(_)
LastSegment(s) ==
    IF s = <<>> \/ s[Len(s)] = "/" THEN <<>>
    ELSE Append(LastSegment(SubSeq(s, 1, Len(s) - 1)), s[Len(s)])

noFileExtension(p) == ~includes(LastSegment(p), ".")

\* C6: for a page path with no file extension and no trailing separator whose
\* ".html" variant exists at the origin and has not failed to be fetched, origin
\* resolution returns that variant and does not fetch the path itself.
C6_HtmlVariantPreferred ==
    (/\ pc \in {"transform", "done"}
     /\ isPage(request)
     /\ noFileExtension(request.pathname)
     /\ ~endsWith(request.pathname, <<"/">>)
     /\ (request.pathname \o <<".", "html">>) \in docs
     /\ \A i \in 1..Len(fetched) :
            fetched[i][2] = request.pathname \o <<".", "html">> => fetched[i][3] \in 200..299) =>
        /\ originResp = originDocument(request.pathname \o <<".", "html">>)
        /\ \A i \in 1..Len(fetched) : fetched[i][2] # request.pathname

finalStatus ==
    IF \E i \in 1..Len(fetched) : fetched[i][1] = "final"
    THEN fetched[CHOOSE i \in 1..Len(fetched) : fetched[i][1] = "final"][3]
    ELSE 0

notFoundStatus ==
    IF \E i \in 1..Len(fetched) : fetched[i][1] = "notFound"
    THEN fetched[CHOOSE i \in 1..Len(fetched) : fetched[i][1] = "notFound"][3]
    ELSE 0

distinctUrls == \A i, j \in 1..Len(fetched) : i # j => fetched[i][2] # fetched[j][2]

\* C8 as claimed: no origin URL is fetched more than once for one request,
\* whatever the requested path.
C8_NoUrlFetchedTwice == distinctUrls

\* C8 as amended: each fetch call site of getOriginResponse runs at most once
\* per request and in the order html, final, notFound; the request starts at
\* most one page-view write; and no origin URL is fetched twice unless the
\* requested path is /404 or /404.html, where /404.html can be fetched twice.
C8_NoRetry ==
    /\ \A i, j \in 1..Len(fetched) : i # j => fetched[i][1] # fetched[j][1]
    /\ Cardinality({w \in inflight : w.req = served}) <= 1
    /\ request.pathname \notin {P_404, P_404_html} => distinctUrls

C8_Witness ==
    /\ pc = "done"
    /\ request.pathname = P_about
    /\ Len(fetched) = 3
    /\ fetched[1] = <<"html", <<"/", "about", ".", "html">>, 503>>
    /\ fetched[2] = <<"final", P_about, 404>>
    /\ fetched[3] = <<"notFound", P_404_html, 0>>
    /\ response.status = 404

\* What the page pipeline answers, from the request and the origin's answers alone.
pageResponses ==
    IF originResp = NoResponse \/ (Len(fetched) > 0 /\ fetched[Len(fetched)][3] = 0
                                    /\ fetched[Len(fetched)][1] = "final")
    THEN {internalServerError}
    ELSE { AwaitInTry(applyTransformations(request, originResp, readOk),
                      internalServerError).value : readOk \in BOOLEAN }

\* C9: the page-view write is fire-and-forget: its failure is caught and is
\* never an unhandled rejection, and the response of a page request is settled
\* by the request and the origin alone, whether the Analytics Store is absent,
\* the write is pending, has succeeded or has failed.
C9_PageViewNeverAffectsResponse ==
    /\ unhandled = {}
    /\ (pc = "done" /\ isPage(request)) =>
          /\ outcome = "fulfilled"
          /\ response \in pageResponses
          /\ track \in {"skipped", "pending", "stored", "failed"}
          /\ (track = "skipped") = ~analyticsBound

\* The response is produced while the write is still pending.
C9_Witness ==
    /\ pc = "done"
    /\ isPage(request)
    /\ track = "pending"
    /\ \E w \in inflight : w.req = served
    /\ response.status = 200

\* C10: every record the router has written, by trackPageView or by POST
\* /api/analytics, is under a key that ends in a random suffix after the
\* timestamp.
C10_KeysCarryRandomSuffix ==
    \A k \in DOMAIN store :
        /\ Len(k) = 3
        /\ k[1] = "pageview"
        /\ k[2] \in 0..MaxTime
        /\ k[3] \in 1..MaxRandom

====
